---- MODULE Spec2Model ----
(***************************************************************************)
(* Address book service of main.py: the `addresses` table, the three       *)
(* mutating endpoints (create_address, update_address, delete_address) and *)
(* the proximity endpoint get_addresses_within_distance.                   *)
(*                                                                         *)
(* The table is a sequence of rows in rowid order, which is the order in   *)
(* which SQLite scans it for `db.query(Address).all()`.  Every endpoint    *)
(* is one action: it runs in its own session and commits before it         *)
(* returns.  `last` holds the request that was served last together with   *)
(* its response.  Two history variables record what callers have seen:    *)
(* `issued` is every id a create has returned so far, `written` maps each  *)
(* id that was created and not since deleted to the body of the last       *)
(* successful create or update of that id.                                 *)
(*                                                                         *)
(* Coordinates are degrees and distances are kilometres, as in the code.   *)
(* The modelled points lie on the equator (latitude 0) or have a latitude  *)
(* that geopy rejects; on the equator the WGS-84 geodesic has the closed   *)
(* form used by EquatorKm, rounded to whole kilometres.                    *)
(***************************************************************************)
EXTENDS Integers, Sequences, FiniteSets, TLC

\* ------------------------------------------------------------------ bounds
\* Largest number of rows the table holds at once.
MaxRecords == 2
\* Largest id the table hands out.
MaxId == 3

\* ------------------------------------------------------- request domains
\* Request bodies of create and update: name, latitude and longitude.
\* Latitude 100 is outside [-90, 90].
Body(name, latitude, longitude) ==
    [name |-> name, latitude |-> latitude, longitude |-> longitude]
Bodies ==
    {Body("a", 0, 0), Body("b", 0, 0), Body("a", 0, 90), Body("b", 0, 180),
     Body("a", 100, 0)}
\* Reference points of the proximity query; longitude 450 is outside
\* [-180, 180] and denotes the meridian 90.
RefLats == {0, 100}
RefLons == {-180, 0, 450}
\* Radii in km: 10019 is the distance of two points of the equator 90
\* degrees apart, 20004 that of two antipodal ones.
Radii == {-1, 0, 10019}
\* Path parameter address_id: MaxId + 1 is never the id of a row.
Ids == 1..(MaxId + 1)
\* Update bodies that fail validation: a body and its fields that arrive
\* as JSON null.
InvalidBodies ==
    {<<Body("a", 0, 0), {"name"}>>,
     <<Body("b", 0, 180), {"latitude", "longitude"}>>}

VARIABLES store, issued, written, last

vars == <<store, issued, written, last>>

\* ------------------------------------------------------------ the table
\* Mutant of Address: latitude and longitude stored in each other's column.
Address_Swapped(id, name, latitude, longitude) ==
    [id |-> id, name |-> name, latitude |-> longitude, longitude |-> latitude]

\* A row of `addresses`.
Address(id, name, latitude, longitude) ==
    [id |-> id, name |-> name, latitude |-> latitude, longitude |-> longitude]

\* The ids of the rows of s.
LiveIds(s) == {s[i].id : i \in 1..Len(s)}

\* The largest element of a non-empty set of integers.
SetMax(S) == CHOOSE m \in S : \A x \in S : x <= m

\* Mutant of NextRowid: the id is the number of rows plus one.
NextRowid_ByCount(s) == Len(s) + 1

\* INTEGER PRIMARY KEY without AUTOINCREMENT: a row inserted without an id
\* gets one more than the largest rowid now in the table, 1 in an empty one.
NextRowid(s) == IF s = <<>> THEN 1 ELSE SetMax(LiveIds(s)) + 1

\* Mutant of first: the filter on the id is missing.
first_NoFilter(s, address_id) == IF s = <<>> THEN <<>> ELSE <<s[1]>>

\* db.query(Address).filter(Address.id == address_id).first(): the rows
\* with that id, as a sequence; empty stands for None.
first(s, address_id) == SelectSeq(s, LAMBDA r : r.id = address_id)

\* Mutant of DeleteRow: the delete is never committed.
DeleteRow_NoCommit(s, address_id) == s

\* db.delete(db_address); db.commit()
DeleteRow(s, address_id) == SelectSeq(s, LAMBDA r : r.id # address_id)

\* Mutant of SetFields: the name is never assigned.
SetFields_KeepName(row, name, latitude, longitude, nulls) ==
    [id        |-> row.id,
     name      |-> row.name,
     latitude  |-> IF "latitude" \in nulls THEN row.latitude ELSE latitude,
     longitude |-> IF "longitude" \in nulls THEN row.longitude ELSE longitude]

\* The loop over address_update.model_dump().items(): a field is assigned
\* unless its value is None.
SetFields(row, name, latitude, longitude, nulls) ==
    [id        |-> row.id,
     name      |-> IF "name" \in nulls THEN row.name ELSE name,
     latitude  |-> IF "latitude" \in nulls THEN row.latitude ELSE latitude,
     longitude |-> IF "longitude" \in nulls THEN row.longitude ELSE longitude]

\* Mutant of UpdateRow: every row is assigned the body's fields.
UpdateRow_AllRows(s, address_id, name, latitude, longitude, nulls) ==
    [i \in 1..Len(s) |-> SetFields(s[i], name, latitude, longitude, nulls)]

\* The table after the row address_id was assigned the body's fields.
UpdateRow(s, address_id, name, latitude, longitude, nulls) ==
    [i \in 1..Len(s) |->
        IF s[i].id = address_id
        THEN SetFields(s[i], name, latitude, longitude, nulls)
        ELSE s[i]]

\* AddressUpdate declares name: str, latitude: float, longitude: float, so
\* a body with a null field is rejected before the handler runs.
ValidBody(nulls) == nulls = {}

\* ------------------------------------------------------------- geodesic
\* geopy.point.Point: a latitude outside [-90, 90] raises ValueError.
ValidLatitude(latitude) == latitude >= -90 /\ latitude <= 90

\* geopy.point.Point: a longitude outside [-180, 180] is wrapped into it.
NormalizeLongitude(longitude) ==
    IF longitude > 180 \/ longitude < -180
    THEN ((longitude + 180) % 360) - 180
    ELSE longitude

\* Absolute difference of two longitudes, in [0, 180].
AngDiff(lon1, lon2) ==
    LET d == (lon2 - lon1) % 360
    IN  IF d > 180 THEN 360 - d ELSE d

\* Length in km of the WGS-84 geodesic between two points of the equator
\* dl degrees apart: along the equator (a = 6378.137 km, 10019 km for 90
\* degrees), over a pole for antipodal points (20004 km).
EquatorKm(dl) == IF dl = 180 THEN 20004 ELSE (dl * 10019) \div 90

\* geodesic(location, address_location).kilometers for two valid points of
\* the equator.
geodesic(lat1, lon1, lat2, lon2) ==
    EquatorKm(AngDiff(NormalizeLongitude(lon1), NormalizeLongitude(lon2)))

\* The loop of get_addresses_within_distance from row i on, within_distance
\* being acc so far: the rows within `distance`, or ValueError as soon as
\* geodesic() is handed a latitude out of range.
RECURSIVE Scan(_, _, _, _, _, _)
Scan(addresses, i, acc, latitude, longitude, distance) ==
    IF i > Len(addresses)
    THEN [status |-> "ok", result |-> acc]
    ELSE IF ~ValidLatitude(latitude) \/ ~ValidLatitude(addresses[i].latitude)
    THEN [status |-> "ValueError", result |-> <<>>]
    ELSE IF geodesic(latitude, longitude,
                     addresses[i].latitude, addresses[i].longitude) <= distance
    THEN Scan(addresses, i + 1, Append(acc, addresses[i]),
              latitude, longitude, distance)
    ELSE Scan(addresses, i + 1, acc, latitude, longitude, distance)

\* ------------------------------------------------------------ responses
\* A served request and its response.  Fields a request does not have are
\* 0, "" or {}; result is the returned row as a one-element sequence, the
\* returned list, or <<>> for an error response.  repeat tells that the
\* request before this one succeeded and had the same operation and id.
Response(op, address_id, name, latitude, longitude, distance, nulls, status, result) ==
    [op |-> op, address_id |-> address_id, name |-> name,
     latitude |-> latitude, longitude |-> longitude, distance |-> distance,
     nulls |-> nulls, status |-> status, result |-> result,
     repeat |-> last.status = "ok" /\ last.op = op
                /\ last.address_id = address_id]

\* written with id mapped to body.
Put(w, id, body) ==
    [j \in DOMAIN w \cup {id} |-> IF j = id THEN body ELSE w[j]]

\* written without id.
Drop(w, id) == [j \in DOMAIN w \ {id} |-> w[j]]

Init ==
    /\ store = <<>>
    /\ issued = {}
    /\ written = <<>>
    /\ last = [op |-> "init", address_id |-> 0, name |-> "", latitude |-> 0,
               longitude |-> 0, distance |-> 0, nulls |-> {}, status |-> "ok",
               result |-> <<>>, repeat |-> FALSE]

\* -------------------------------------------------------------- actions
\* POST /addresses/
create_address(name, latitude, longitude) ==
    LET db_address == Address(NextRowid(store), name, latitude, longitude)
    IN  /\ Len(store) < MaxRecords
        /\ db_address.id <= MaxId
        /\ store' = Append(store, db_address)
        /\ issued' = issued \cup {db_address.id}
        /\ written' = Put(written, db_address.id,
                          Body(name, latitude, longitude))
        /\ last' = Response("create", 0, name, latitude, longitude, 0, {},
                            "ok", <<db_address>>)

\* PUT /addresses/{address_id} with a body that fails validation.
update_address_invalid(address_id, name, latitude, longitude, nulls) ==
    /\ ~ValidBody(nulls)
    /\ last' = Response("update", address_id, name, latitude, longitude, 0,
                        nulls, "InvalidInput", <<>>)
    /\ UNCHANGED <<store, issued, written>>

\* PUT /addresses/{address_id}
update_address(address_id, name, latitude, longitude, nulls) ==
    /\ ValidBody(nulls)
    /\ IF first(store, address_id) = <<>>
       THEN /\ last' = Response("update", address_id, name, latitude,
                                longitude, 0, nulls, "NotFound", <<>>)
            /\ UNCHANGED <<store, issued, written>>
       ELSE /\ store' = UpdateRow(store, address_id, name, latitude,
                                  longitude, nulls)
            /\ last' = Response("update", address_id, name, latitude,
                                longitude, 0, nulls, "ok",
                                first(store', address_id))
            /\ written' = Put(written, address_id,
                              Body(name, latitude, longitude))
            /\ UNCHANGED issued

\* DELETE /addresses/{address_id}
delete_address(address_id) ==
    IF first(store, address_id) = <<>>
    THEN /\ last' = Response("delete", address_id, "", 0, 0, 0, {},
                             "NotFound", <<>>)
         /\ UNCHANGED <<store, issued, written>>
    ELSE /\ store' = DeleteRow(store, address_id)
         /\ last' = Response("delete", address_id, "", 0, 0, 0, {}, "ok",
                             first(store, address_id))
         /\ written' = Drop(written, address_id)
         /\ UNCHANGED issued

\* GET /addresses/distance/
get_addresses_within_distance(latitude, longitude, distance) ==
    LET r == Scan(store, 1, <<>>, latitude, longitude, distance)
    IN  /\ last' = Response("query", 0, "", latitude, longitude, distance,
                            {}, r.status, r.result)
        /\ UNCHANGED <<store, issued, written>>

Next ==
    \/ \E b \in Bodies : create_address(b.name, b.latitude, b.longitude)
    \/ \E id \in Ids, b \in Bodies :
          update_address(id, b.name, b.latitude, b.longitude, {})
    \/ \E id \in Ids, v \in InvalidBodies :
          update_address_invalid(id, v[1].name, v[1].latitude,
                                 v[1].longitude, v[2])
    \/ \E id \in Ids : delete_address(id)
    \/ \E la \in RefLats, lo \in RefLons, d \in Radii :
          get_addresses_within_distance(la, lo, d)

Spec == Init /\ [][Next]_vars

TypeOK ==
    /\ Len(store) <= MaxRecords
    /\ \A i \in 1..Len(store) : store[i].id \in 1..MaxId
    /\ issued \subseteq 1..MaxId
\* --------------------------------------------------------------- claims
\* The name, latitude and longitude of a row.
BodyOf(row) ==
    [name |-> row.name, latitude |-> row.latitude, longitude |-> row.longitude]

\* The served request carries this body.
RequestBody ==
    [name |-> last.name, latitude |-> last.latitude,
     longitude |-> last.longitude]

\* The rows of s as a set.
Rows(s) == {s[i] : i \in 1..Len(s)}

\* Row r lies within the radius of the served proximity query.
InRadius(r) ==
    geodesic(last.latitude, last.longitude, r.latitude, r.longitude)
        <= last.distance

\* No latitude handed to geodesic() by the served query is out of range.
LatitudesInRange ==
    /\ ValidLatitude(last.latitude)
    /\ \A i \in 1..Len(store) : ValidLatitude(store[i].latitude)

\* C1: a proximity query returns exactly the rows at distance <= max_km
\* from the reference point, in the order of the scanned table, each once.
C1_QueryReturnsRowsWithinRadius ==
    last.op = "query" =>
        /\ last.status = "ok"
        /\ last.result = SelectSeq(store, InRadius)

\* C2: live ids are pairwise different, and the id a create assigns was
\* never assigned before, not even to a row that has since been deleted.
C2_IdNeverReused ==
    [][/\ Cardinality(LiveIds(store')) = Len(store')
       /\ last'.op = "create" => last'.result[1].id \notin issued]_vars

\* C2 as amended: live ids are pairwise different, and the id a create
\* assigns is larger than the id of every row live at that moment (hence
\* different from each); the id of a deleted row can be assigned again.
C2_IdFreshAmongLive ==
    [][/\ Cardinality(LiveIds(store')) = Len(store')
       /\ last'.op = "create" =>
             \A j \in LiveIds(store) : last'.result[1].id > j]_vars

\* C2 witness: a create served while a row is live and id 1 was deleted.
C2_Witness ==
    /\ last.op = "create"
    /\ Len(store) = 2
    /\ 1 \in issued \ LiveIds(store)

\* C3: a validated update of a live id succeeds, keeps the id, stores
\* exactly the three values of the body and returns the row holding them.
C3_UpdateOverwritesAllFields ==
    [][(/\ last'.op = "update"
        /\ last'.nulls = {}
        /\ last'.address_id \in LiveIds(store))
       => LET want == [id |-> last'.address_id, name |-> last'.name,
                       latitude |-> last'.latitude,
                       longitude |-> last'.longitude]
          IN  /\ last'.status = "ok"
              /\ last'.result = <<want>>
              /\ want \in Rows(store')
              /\ \A r \in Rows(store') : r.id = want.id => r = want
              /\ LiveIds(store') = LiveIds(store)]_vars

\* C3 witness: a successful update whose body differs from the create's.
C3_Witness ==
    /\ last.op = "update"
    /\ last.status = "ok"
    /\ last.name = "b"
    /\ last.longitude = 180
    /\ Len(store) = 2

\* C4: a validated update, or a delete, of an id that is not live fails
\* with NotFound and leaves the table exactly as it was.
C4_MissingIdNotFound ==
    [][(/\ last'.op \in {"update", "delete"}
        /\ last'.nulls = {}
        /\ last'.address_id \notin LiveIds(store))
       => /\ last'.status = "NotFound"
          /\ last'.result = <<>>
          /\ store' = store]_vars

\* C4 witness: NotFound for an id that was created and then deleted, while
\* another row is live.
C4_Witness ==
    /\ last.op = "update"
    /\ last.status = "NotFound"
    /\ last.address_id \in issued
    /\ store # <<>>

\* C5: delete of a live id succeeds, returns the row as it was and removes
\* it; the same delete repeated at once fails with NotFound.
C5_DeleteTwice ==
    [][/\ (last'.op = "delete" /\ last'.address_id \in LiveIds(store))
          => /\ last'.status = "ok"
             /\ Len(last'.result) = 1
             /\ last'.result[1] \in Rows(store)
             /\ last'.result[1].id = last'.address_id
             /\ last'.address_id \notin LiveIds(store')
             /\ first(store', last'.address_id) = <<>>
       /\ (/\ last.op = "delete"
           /\ last.status = "ok"
           /\ last'.op = "delete"
           /\ last'.address_id = last.address_id)
          => /\ last'.status = "NotFound"
             /\ store' = store]_vars

\* C5 witness: the second of two deletes of the same id in a row, the
\* first having succeeded.
C5_Witness ==
    /\ last.op = "delete"
    /\ last.repeat
    /\ last.status = "NotFound"
    /\ store # <<>>

\* C6: after a create the table holds the rows it held before, unchanged,
\* and exactly one more row, which has the body's values and an id no other
\* live row has; create returns that row.
C6_CreateAddsOneRow ==
    [][last'.op = "create"
       => /\ last'.status = "ok"
          /\ Len(last'.result) = 1
          /\ BodyOf(last'.result[1])
                = [name |-> last'.name, latitude |-> last'.latitude,
                   longitude |-> last'.longitude]
          /\ last'.result[1].id \notin LiveIds(store)
          /\ Rows(store') = Rows(store) \cup {last'.result[1]}
          /\ Len(store') = Len(store) + 1]_vars

\* C6 witness: a create served while another row was live.
C6_Witness ==
    /\ last.op = "create"
    /\ last.latitude # last.longitude
    /\ Len(store) = 2

\* C7: a proximity query with radius 0 returns exactly the rows whose
\* latitude and longitude equal the reference point's.
C7_RadiusZeroIsEqualCoordinates ==
    (last.op = "query" /\ last.distance = 0) =>
        /\ last.status = "ok"
        /\ last.result
              = SelectSeq(store, LAMBDA r : /\ r.latitude = last.latitude
                                            /\ r.longitude = last.longitude)

\* C8: a proximity query with a negative radius returns the empty list.
C8_NegativeRadiusIsEmpty ==
    (last.op = "query" /\ last.distance < 0) =>
        /\ last.status = "ok"
        /\ last.result = <<>>

\* C9: create stores any latitude and longitude as given, and a proximity
\* query never fails, whatever the table holds.
C9_CreateAndQueryTotal ==
    /\ last.op = "create" =>
          /\ last.status = "ok"
          /\ BodyOf(store[Len(store)]) = RequestBody
    /\ last.op = "query" => last.status = "ok"

\* C10: the live rows are the rows created and not since deleted, and each
\* holds the body of the last successful update of its id, or of its
\* create.
C10_StoreIsWhatWasWritten ==
    /\ LiveIds(store) = DOMAIN written
    /\ Cardinality(LiveIds(store)) = Len(store)
    /\ \A i \in 1..Len(store) : BodyOf(store[i]) = written[store[i].id]

\* C10 witness: a row updated while another row is live, a third row
\* having been deleted.
C10_Witness ==
    /\ last.op = "update"
    /\ last.status = "ok"
    /\ Len(store) = 2
    /\ issued \ LiveIds(store) # {}
    /\ \E i \in 1..Len(store) : BodyOf(store[i]) # RequestBody

\* ------------------------------------------------------------ in range
\* A query that hands geodesic() no latitude out of range succeeds and
\* returns the rows within the radius, in table order.
QueryInRange ==
    (last.op = "query" /\ LatitudesInRange) =>
        /\ last.status = "ok"
        /\ last.result = SelectSeq(store, InRadius)

\* A query fails exactly when the table is not empty and a latitude handed
\* to geodesic() is out of range.
QueryFailure ==
    last.op = "query" =>
        (last.status = "ValueError" <=> (store # <<>> /\ ~LatitudesInRange))
====
